---- MODULE Spec2Model ----
(***************************************************************************)
(* Model of the CODEOWNERS engine of the "search by code owner" extension: *)
(* CodeOwnerService (src/src/codeOwnerService.ts) and the calls the        *)
(* extension makes on it.                                                  *)
(*                                                                         *)
(* A JavaScript string is modelled as the sequence of its characters, each *)
(* character a one-character TLA+ string: "*.js" is <<"*", ".", "j", "s">>.*)
(* The alphabet of the model is letters, digits and . / * ? @ # - together *)
(* with the white space characters space, \t, \r and \n; it holds no       *)
(* regular-expression metacharacter other than . * and ?.                  *)
(***************************************************************************)
EXTENDS Integers, Sequences, FiniteSets, TLC

VARIABLES
  workspaceFolders,    \* vscode.workspace.workspaceFolders: number of folders, 0 = undefined
  disk,                \* the file system: candidate file -> content, or NoFile
  codeOwnerRules,      \* CodeOwnerService.codeOwnerRules
  allOwners,           \* CodeOwnerService.allOwners
  codeOwnersFilePath,  \* CodeOwnerService.codeOwnersFilePath
  pc,                  \* position of each call of initialize()
  probe,               \* index, in the probing order, of the candidate a call is at
  ret,                 \* value each call of initialize() resolved to
  observed,            \* the last query made on the service, with its answer
  search,              \* the search request of the view: its position and what it did
  webview              \* the script of the webview: its variables, the button, the last post

vars == <<workspaceFolders, disk, codeOwnerRules, allOwners, codeOwnersFilePath,
          pc, probe, ret, observed, search, webview>>

----------------------------------------------------------------------------
(* String primitives of JavaScript used by the service.                    *)

\* String.prototype.startsWith
StartsWith(s, p) == Len(p) <= Len(s) /\ SubSeq(s, 1, Len(p)) = p

\* String.prototype.endsWith
EndsWith(s, p) == Len(p) <= Len(s) /\ SubSeq(s, Len(s) - Len(p) + 1, Len(s)) = p

\* String.prototype.includes
Includes(s, p) == \E i \in 0..(Len(s) - Len(p)) : SubSeq(s, i + 1, i + Len(p)) = p

\* s.slice(n) and s.substring(n) for 0 <= n
SliceFrom(s, n) == SubSeq(s, n + 1, Len(s))

\* s.slice(0, -1)
DropLast(s) == SubSeq(s, 1, Len(s) - 1)

\* the characters String.prototype.trim and the regular expression \s treat as white space
IsSpace(c) == c \in {" ", "\t", "\r", "\n"}

RECURSIVE TrimStart(_)
TrimStart(s) == IF s # <<>> /\ IsSpace(Head(s)) THEN TrimStart(Tail(s)) ELSE s

RECURSIVE TrimEnd(_)
TrimEnd(s) == IF s # <<>> /\ IsSpace(s[Len(s)]) THEN TrimEnd(DropLast(s)) ELSE s

\* String.prototype.trim
Trim(s) == TrimEnd(TrimStart(s))

\* s.split(sep) for a one-character separator: always at least one piece
RECURSIVE SplitOn(_, _, _)
SplitOn(s, sep, cur) ==
  IF s = <<>> THEN <<cur>>
  ELSE IF Head(s) = sep THEN <<cur>> \o SplitOn(Tail(s), sep, <<>>)
  ELSE SplitOn(Tail(s), sep, Append(cur, Head(s)))

\* s.split(/\s+/): a run of white space is one separator; a run at either end
\* leaves an empty piece there
RECURSIVE SplitSpaces(_, _)
SplitSpaces(s, cur) ==
  IF s = <<>> THEN <<cur>>
  ELSE IF IsSpace(Head(s)) THEN <<cur>> \o SplitSpaces(TrimStart(s), <<>>)
  ELSE SplitSpaces(Tail(s), Append(cur, Head(s)))

\* s.replace(/c/g, r) for a single character c
RECURSIVE ReplaceChar(_, _, _)
ReplaceChar(s, c, r) ==
  IF s = <<>> THEN <<>>
  ELSE (IF Head(s) = c THEN r ELSE <<Head(s)>>) \o ReplaceChar(Tail(s), c, r)

Range(s) == { s[i] : i \in DOMAIN s }

\* the elements of a sequence in order of first occurrence: [...new Set(s)]
RECURSIVE Distinct(_)
Distinct(s) ==
  IF s = <<>> THEN <<>>
  ELSE LET d == Distinct(DropLast(s))
       IN  IF s[Len(s)] \in Range(d) THEN d ELSE Append(d, s[Len(s)])

----------------------------------------------------------------------------
(* The pattern matcher.                                                    *)

\* the source of the regular expression of a wildcard pattern: the dots are
\* escaped first, then "*" becomes ".*" and "?" becomes "."
regexPattern(pattern) ==
  ReplaceChar(ReplaceChar(ReplaceChar(pattern, ".", <<"\\", ".">>),
                          "*", <<".", "*">>),
              "?", <<".">>)

\* new RegExp("^" + re + "$").test(s), for the expressions regexPattern makes:
\* "\." is a literal dot, ".*" any run of characters, "." any one character
RECURSIVE RegexTest(_, _)
RegexTest(re, s) ==
  IF re = <<>> THEN s = <<>>
  ELSE IF Head(re) = "\\" /\ Len(re) >= 2
       THEN s # <<>> /\ Head(s) = re[2] /\ RegexTest(SliceFrom(re, 2), Tail(s))
  ELSE IF Head(re) = "." /\ Len(re) >= 2 /\ re[2] = "*"
       THEN \E k \in 0..Len(s) : RegexTest(SliceFrom(re, 2), SliceFrom(s, k))
  ELSE IF Head(re) = "."
       THEN s # <<>> /\ RegexTest(Tail(re), Tail(s))
  ELSE s # <<>> /\ Head(s) = Head(re) /\ RegexTest(Tail(re), Tail(s))

\* matchesPattern looking for the directory name followed by "/" anywhere in the
\* path, without the "/" in front of it
matchesPatternLooseDir(filePath, pattern) ==
  IF pattern = <<"*">> THEN TRUE
  ELSE IF EndsWith(pattern, <<"/">>)
          \/ (~Includes(pattern, <<"*">>) /\ ~Includes(pattern, <<".">>))
  THEN LET dirPattern == IF EndsWith(pattern, <<"/">>) THEN DropLast(pattern) ELSE pattern
       IN  IF StartsWith(dirPattern, <<"/">>)
           THEN LET absoluteDir == SliceFrom(dirPattern, 1)
                IN  StartsWith(filePath, absoluteDir \o <<"/">>) \/ filePath = absoluteDir
           ELSE \/ StartsWith(filePath, dirPattern \o <<"/">>)
                \/ Includes(filePath, dirPattern \o <<"/">>)
                \/ filePath = dirPattern
  ELSE IF StartsWith(pattern, <<"*", ".">>)
  THEN LET extension == SliceFrom(pattern, 1)
       IN  EndsWith(filePath, extension)
  ELSE IF StartsWith(pattern, <<"/">>)
  THEN LET rootPattern == SliceFrom(pattern, 1)
       IN  StartsWith(filePath, rootPattern)
  ELSE IF Includes(pattern, <<"*">>)
  THEN RegexTest(regexPattern(pattern), filePath)
  ELSE filePath = pattern \/ EndsWith(filePath, <<"/">> \o pattern)

matchesPattern(filePath, pattern) ==
  IF pattern = <<"*">> THEN TRUE
  ELSE IF EndsWith(pattern, <<"/">>)
          \/ (~Includes(pattern, <<"*">>) /\ ~Includes(pattern, <<".">>))
  THEN LET dirPattern == IF EndsWith(pattern, <<"/">>) THEN DropLast(pattern) ELSE pattern
       IN  IF StartsWith(dirPattern, <<"/">>)
           THEN LET absoluteDir == SliceFrom(dirPattern, 1)
                IN  StartsWith(filePath, absoluteDir \o <<"/">>) \/ filePath = absoluteDir
           ELSE \/ StartsWith(filePath, dirPattern \o <<"/">>)
                \/ Includes(filePath, <<"/">> \o dirPattern \o <<"/">>)
                \/ filePath = dirPattern
  ELSE IF StartsWith(pattern, <<"*", ".">>)
  THEN LET extension == SliceFrom(pattern, 1)
       IN  EndsWith(filePath, extension)
  ELSE IF StartsWith(pattern, <<"/">>)
  THEN LET rootPattern == SliceFrom(pattern, 1)
       IN  StartsWith(filePath, rootPattern)
  ELSE IF Includes(pattern, <<"*">>)
  THEN RegexTest(regexPattern(pattern), filePath)
  ELSE filePath = pattern \/ EndsWith(filePath, <<"/">> \o pattern)

----------------------------------------------------------------------------
(* Parsing of the rule file.                                               *)

\* parts.slice(1).filter((owner) => owner.includes("@")).map((owner) => owner.trim())
RECURSIVE ownerTokens(_)
ownerTokens(parts) ==
  IF parts = <<>> THEN <<>>
  ELSE (IF Includes(Head(parts), <<"@">>) THEN <<Trim(Head(parts))>> ELSE <<>>)
       \o ownerTokens(Tail(parts))

\* one line of the file: the rule it adds, as a sequence of zero or one rules
parseLine(rawLine) ==
  LET line  == Trim(rawLine)
      parts == SplitSpaces(line, <<>>)
      owners == ownerTokens(SliceFrom(parts, 1))
  IN  IF line = <<>> \/ StartsWith(line, <<"#">>) THEN <<>>
      ELSE IF Len(parts) < 2 THEN <<>>
      ELSE << [pattern |-> parts[1], owners |-> owners] >>

\* the loop over the lines: a rule is pushed for every line that is kept, and
\* the owners of a rule that has some are added to the owner set
RECURSIVE parseLoop(_, _, _)
parseLoop(lines, rules, owners) ==
  IF lines = <<>> THEN [codeOwnerRules |-> rules, allOwners |-> owners]
  ELSE LET r == parseLine(Head(lines))
       IN  IF r = <<>> THEN parseLoop(Tail(lines), rules, owners)
           ELSE IF Len(r[1].owners) = 0
           THEN parseLoop(Tail(lines), Append(rules, [pattern |-> r[1].pattern, owners |-> <<>>]), owners)
           ELSE parseLoop(Tail(lines), Append(rules, r[1]), owners \cup Range(r[1].owners))

\* parseCodeOwnersContent without its two first statements: the rules and the
\* owners of the text are added to those the service holds
parseCodeOwnersContentKeeping(content, rules, owners) ==
  parseLoop(SplitOn(content, "\n", <<>>), rules, owners)

\* parseCodeOwnersContent on a service that holds the given rules and owners:
\* the rule list is replaced by an empty one and the owner set is cleared,
\* then the lines of the text are gone through
parseCodeOwnersContent(content, rules, owners) ==
  LET cleared == [codeOwnerRules |-> <<>>, allOwners |-> owners \ owners]
  IN  parseLoop(SplitOn(content, "\n", <<>>), cleared.codeOwnerRules, cleared.allOwners)

----------------------------------------------------------------------------
(* The queries of the service, as functions of its fields.                 *)

Null == <<>>                    \* codeOwnersFilePath === null
Undefined == <<"undefined">>    \* an absent matchingPattern

\* hasCodeOwnersFile with the comparison inverted
hasCodeOwnersFileInverted(path) == path = Null

hasCodeOwnersFile(path) == path # Null

getCodeOwnersFilePath(path) == path

\* Array.prototype.find in the place of findLast: the first rule that matches
findFirst(rules, filePath) ==
  LET hits == { i \in DOMAIN rules : matchesPattern(filePath, rules[i].pattern) }
  IN  IF hits = {} THEN 0 ELSE CHOOSE i \in hits : \A j \in hits : i <= j

\* Array.prototype.findLast over the rule list: the index found, 0 for undefined
findLast(rules, filePath) ==
  LET hits == { i \in DOMAIN rules : matchesPattern(filePath, rules[i].pattern) }
  IN  IF hits = {} THEN 0 ELSE CHOOSE i \in hits : \A j \in hits : j <= i

\* relativePath.replace(/\\/g, "/")
normalizedPath(relativePath) == ReplaceChar(relativePath, "\\", <<"/">>)

Unowned == [owners |-> <<>>, isUnowned |-> TRUE, matchingPattern |-> Undefined]

\* getCodeOwnerForFile without the early return for a file that lies in no
\* workspace folder
getCodeOwnerForFileAnyFolder(path, rules, folder, relativePath) ==
  IF path = Null \/ Len(rules) = 0 THEN Unowned
  ELSE LET m == findLast(rules, normalizedPath(relativePath))
       IN  IF m = 0 THEN Unowned
           ELSE [owners |-> rules[m].owners,
                 isUnowned |-> Len(rules[m].owners) = 0,
                 matchingPattern |-> rules[m].pattern]

\* getCodeOwnerForFile; folder is the workspace folder getWorkspaceFolder finds
\* for the file (0 when it finds none), relativePath the path relative to it
getCodeOwnerForFile(path, rules, folder, relativePath) ==
  IF path = Null \/ Len(rules) = 0 THEN Unowned
  ELSE IF folder = 0 THEN Unowned
  ELSE LET m == findLast(rules, normalizedPath(relativePath))
       IN  IF m = 0 THEN Unowned
           ELSE [owners |-> rules[m].owners,
                 isUnowned |-> Len(rules[m].owners) = 0,
                 matchingPattern |-> rules[m].pattern]

\* the patterns of the rules, in list order, whose index satisfies a test
RECURSIVE patternsAt(_, _)
patternsAt(rules, keep) ==
  IF rules = <<>> THEN <<>>
  ELSE patternsAt(DropLast(rules), keep)
       \o (IF Len(rules) \in keep THEN <<rules[Len(rules)].pattern>> ELSE <<>>)

getAllOwnedPatterns(rules) ==
  patternsAt(rules, { i \in DOMAIN rules : Len(rules[i].owners) > 0 })

getUnownedPatterns(rules) ==
  patternsAt(rules, { i \in DOMAIN rules : Len(rules[i].owners) = 0 })

AnyFile == <<"*", "*", "/", "*">>    \* the glob "**/*"

\* getPatternsForUnowned that excludes the owned patterns in both cases
getPatternsForUnownedExcluding(rules) ==
  LET unownedPatterns == getUnownedPatterns(rules)
  IN  [includePatterns |-> IF Len(unownedPatterns) > 0 THEN unownedPatterns ELSE <<AnyFile>>,
       excludePatterns |-> getAllOwnedPatterns(rules)]

getPatternsForUnowned(rules) ==
  LET unownedPatterns == getUnownedPatterns(rules)
  IN  [includePatterns |-> IF Len(unownedPatterns) > 0 THEN unownedPatterns ELSE <<AnyFile>>,
       excludePatterns |-> IF Len(unownedPatterns) > 0 THEN <<>> ELSE getAllOwnedPatterns(rules)]

\* getPatternsForAllOwned without the fallback to "**/*"
getPatternsForAllOwnedNoFallback(rules) ==
  [includePatterns |-> getAllOwnedPatterns(rules),
   excludePatterns |-> getUnownedPatterns(rules)]

getPatternsForAllOwned(rules) ==
  LET ownedPatterns == getAllOwnedPatterns(rules)
  IN  [includePatterns |-> IF Len(ownedPatterns) > 0 THEN ownedPatterns ELSE <<AnyFile>>,
       excludePatterns |-> getUnownedPatterns(rules)]

\* pattern.replace(/\/?\*.*$/, ""): cut at the first "*", and at the "/" before it
baseOf(pattern) ==
  LET stars == { i \in DOMAIN pattern : pattern[i] = "*" }
  IN  IF stars = {} THEN pattern
      ELSE LET k == CHOOSE i \in stars : \A j \in stars : i <= j
           IN  IF k > 1 /\ pattern[k - 1] = "/" THEN SubSeq(pattern, 1, k - 2)
               ELSE SubSeq(pattern, 1, k - 1)

\* wouldOverride comparing the later pattern with the whole earlier pattern,
\* star included, in the place of its suffix from the dot
wouldOverrideWholeSuffix(earlierPattern, laterPattern) ==
  IF earlierPattern = laterPattern THEN TRUE
  ELSE IF /\ StartsWith(earlierPattern, <<"*", ".">>)
          /\ Includes(laterPattern, <<"/">>)
          /\ EndsWith(laterPattern, earlierPattern)
  THEN TRUE
  ELSE IF /\ StartsWith(earlierPattern, <<"*", ".">>)
          /\ Includes(laterPattern, <<"/">>)
          /\ ~Includes(laterPattern, <<"*">>)
  THEN EndsWith(laterPattern, earlierPattern)
  ELSE IF /\ Includes(earlierPattern, <<"/">>)
          /\ Includes(laterPattern, <<"/">>)
          /\ StartsWith(baseOf(laterPattern), baseOf(earlierPattern))
          /\ Len(baseOf(laterPattern)) > Len(baseOf(earlierPattern))
  THEN TRUE
  ELSE FALSE

\* wouldOverride whose last case accepts a later base of the same length
wouldOverrideSameBase(earlierPattern, laterPattern) ==
  IF earlierPattern = laterPattern THEN TRUE
  ELSE IF /\ StartsWith(earlierPattern, <<"*", ".">>)
          /\ Includes(laterPattern, <<"/">>)
          /\ EndsWith(laterPattern, SliceFrom(earlierPattern, 1))
  THEN TRUE
  ELSE IF /\ StartsWith(earlierPattern, <<"*", ".">>)
          /\ Includes(laterPattern, <<"/">>)
          /\ ~Includes(laterPattern, <<"*">>)
  THEN EndsWith(laterPattern, SliceFrom(earlierPattern, 1))
  ELSE IF /\ Includes(earlierPattern, <<"/">>)
          /\ Includes(laterPattern, <<"/">>)
          /\ StartsWith(baseOf(laterPattern), baseOf(earlierPattern))
          /\ Len(baseOf(laterPattern)) >= Len(baseOf(earlierPattern))
  THEN TRUE
  ELSE FALSE

wouldOverride(earlierPattern, laterPattern) ==
  IF earlierPattern = laterPattern THEN TRUE
  ELSE IF /\ StartsWith(earlierPattern, <<"*", ".">>)
          /\ Includes(laterPattern, <<"/">>)
          /\ EndsWith(laterPattern, SliceFrom(earlierPattern, 1))
  THEN TRUE
  ELSE IF /\ StartsWith(earlierPattern, <<"*", ".">>)
          /\ Includes(laterPattern, <<"/">>)
          /\ ~Includes(laterPattern, <<"*">>)
  THEN EndsWith(laterPattern, SliceFrom(earlierPattern, 1))
  ELSE IF /\ Includes(earlierPattern, <<"/">>)
          /\ Includes(laterPattern, <<"/">>)
          /\ StartsWith(baseOf(laterPattern), baseOf(earlierPattern))
          /\ Len(baseOf(laterPattern)) > Len(baseOf(earlierPattern))
  THEN TRUE
  ELSE FALSE

\* findOverridingPatterns with the loop started at the first rule of the list
findOverridingPatternsFromStart(rules, ownerRuleIndex, owner) ==
  patternsAt(rules, { i \in DOMAIN rules :
                        /\ wouldOverride(rules[ownerRuleIndex].pattern, rules[i].pattern)
                        /\ owner \notin Range(rules[i].owners) })

\* findOverridingPatterns for the rule at index ownerRuleIndex: the later rules
\* that override its pattern and do not name the owner, in list order
findOverridingPatterns(rules, ownerRuleIndex, owner) ==
  patternsAt(rules, { i \in DOMAIN rules :
                        /\ i >= ownerRuleIndex + 1
                        /\ wouldOverride(rules[ownerRuleIndex].pattern, rules[i].pattern)
                        /\ owner \notin Range(rules[i].owners) })

\* the overriding patterns of the owner's rules, one rule after the other
RECURSIVE overridesOf(_, _, _)
overridesOf(rules, ownerRules, owner) ==
  IF ownerRules = <<>> THEN <<>>
  ELSE findOverridingPatterns(rules, Head(ownerRules), owner)
       \o overridesOf(rules, Tail(ownerRules), owner)

\* the indices of a set in ascending order
RECURSIVE Ascending(_)
Ascending(S) ==
  IF S = {} THEN <<>>
  ELSE LET m == CHOOSE i \in S : \A j \in S : i <= j
       IN  <<m>> \o Ascending(S \ {m})

\* Set.prototype.difference, on insertion-ordered sets
RECURSIVE difference(_, _)
difference(a, b) ==
  IF a = <<>> THEN <<>>
  ELSE (IF Head(a) \in Range(b) THEN <<>> ELSE <<Head(a)>>) \o difference(Tail(a), b)

\* getPatternsForSpecificOwner that returns the overriding patterns as they
\* were collected, the patterns of the owner not taken out
getPatternsForSpecificOwnerNoDifference(rules, owner) ==
  LET ownerRules == Ascending({ i \in DOMAIN rules : owner \in Range(rules[i].owners) })
      ownerPatterns == Distinct([k \in DOMAIN ownerRules |-> rules[ownerRules[k]].pattern])
      excludePatterns == Distinct(overridesOf(rules, ownerRules, owner))
  IN  IF Len(ownerPatterns) = 0
      THEN [includePatterns |-> <<>>, excludePatterns |-> <<>>]
      ELSE [includePatterns |-> ownerPatterns,
            excludePatterns |-> excludePatterns]

getPatternsForSpecificOwner(rules, owner) ==
  LET ownerRules == Ascending({ i \in DOMAIN rules : owner \in Range(rules[i].owners) })
      ownerPatterns == Distinct([k \in DOMAIN ownerRules |-> rules[ownerRules[k]].pattern])
      excludePatterns == Distinct(overridesOf(rules, ownerRules, owner))
  IN  IF Len(ownerPatterns) = 0
      THEN [includePatterns |-> <<>>, excludePatterns |-> <<>>]
      ELSE [includePatterns |-> ownerPatterns,
            excludePatterns |-> difference(excludePatterns, ownerPatterns)]

UnownedName == <<"u", "n", "o", "w", "n", "e", "d">>
OwnedByAllName == <<"o", "w", "n", "e", "d", "-", "b", "y", "-", "a", "l", "l">>

getFilePatternsForOwner(rules, owner) ==
  IF owner = UnownedName THEN getPatternsForUnowned(rules)
  ELSE IF owner = OwnedByAllName THEN getPatternsForAllOwned(rules)
  ELSE getPatternsForSpecificOwner(rules, owner)

\* the glob of the search view for one pattern of the rule file
globOf(pattern) ==
  IF pattern = <<"*">> THEN AnyFile
  ELSE IF StartsWith(pattern, <<"/">>) THEN SliceFrom(pattern, 1)
  ELSE IF EndsWith(pattern, <<"/">>) THEN pattern \o AnyFile
  ELSE IF StartsWith(pattern, <<"*", ".">>) THEN <<"*", "*", "/">> \o pattern
  ELSE <<"*", "*", "/">> \o pattern

generateIncludePatterns(includePatterns) ==
  [k \in DOMAIN includePatterns |-> globOf(includePatterns[k])]

\* generateExcludePatterns that puts "**/" before a pattern that starts with
\* "/" in the place of cutting the "/" off
generateExcludePatternsKeepingRoot(excludePatterns) ==
  [k \in DOMAIN excludePatterns |->
     LET pattern == excludePatterns[k]
     IN  IF pattern = <<"*">> THEN AnyFile
         ELSE IF EndsWith(pattern, <<"/">>) /\ ~StartsWith(pattern, <<"/">>)
         THEN pattern \o AnyFile
         ELSE <<"*", "*", "/">> \o pattern]

generateExcludePatterns(excludePatterns) ==
  [k \in DOMAIN excludePatterns |->
     LET pattern == excludePatterns[k]
     IN  IF pattern = <<"*">> THEN AnyFile
         ELSE IF StartsWith(pattern, <<"/">>) THEN SliceFrom(pattern, 1)
         ELSE IF EndsWith(pattern, <<"/">>) THEN pattern \o AnyFile
         ELSE IF StartsWith(pattern, <<"*", ".">>) THEN <<"*", "*", "/">> \o pattern
         ELSE <<"*", "*", "/">> \o pattern]

\* the characters of the model in the order of their UTF-16 code units
Alphabet ==
  <<"\t", "\n", "\r", " ", "#", "*", "-", ".", "/",
    "0", "1", "2", "3", "4", "5", "6", "7", "8", "9", "?", "@", "\\",
    "a", "b", "c", "d", "e", "f", "g", "h", "i", "j", "k", "l", "m",
    "n", "o", "p", "q", "r", "s", "t", "u", "v", "w", "x", "y", "z">>

CharCode(c) == CHOOSE i \in DOMAIN Alphabet : Alphabet[i] = c

\* a < b in the order Array.prototype.sort uses when given no comparator
RECURSIVE StringLess(_, _)
StringLess(a, b) ==
  IF b = <<>> THEN FALSE
  ELSE IF a = <<>> THEN TRUE
  ELSE IF Head(a) = Head(b) THEN StringLess(Tail(a), Tail(b))
  ELSE CharCode(Head(a)) < CharCode(Head(b))

\* Array.prototype.sort without a comparator, on the elements of a set
RECURSIVE sort(_)
sort(owners) ==
  IF owners = {} THEN <<>>
  ELSE LET m == CHOOSE a \in owners : \A b \in owners \ {a} : StringLess(a, b)
       IN  <<m>> \o sort(owners \ {m})

\* getAllOwners with the sorted array reversed
getAllOwnersDescending(owners) ==
  LET sorted == sort(owners)
  IN  [k \in DOMAIN sorted |-> sorted[Len(sorted) + 1 - k]]

\* Array.from(this.allOwners).sort()
getAllOwners(owners) == sort(owners)

----------------------------------------------------------------------------
(* The inputs of the model.                                                *)

\* workspace folders of the model
MaxFolders == 1
\* calls of initialize() in one run
MaxReloads == 2
\* rule files present on the disk at one time
MaxFiles == 2
\* the places, counted from the first, where a rule file is ever written
MaxPlaces == 2
\* lines of a rule file
MaxLines == 3
\* segments of a path given to the matcher
MaxDepth == 3

\* the conventional places of the rule file, in order of precedence
codeownersLocations ==
  <<".github/CODEOWNERS", "CODEOWNERS", "docs/CODEOWNERS",
    ".gitlab/CODEOWNERS", ".gitea/CODEOWNERS">>

NoFile == <<"ENOENT">>    \* what the disk holds where there is no file

Frontend == <<"@", "f", "r", "o", "n", "t", "e", "n", "d">>
Backend  == <<"@", "b", "a", "c", "k", "e", "n", "d">>
Nobody   == <<"@", "n", "o", "b", "o", "d", "y">>

StarJs      == <<"*", ".", "j", "s">>
ApiStarJs   == <<"/", "a", "p", "i", "/", "*", ".", "j", "s">>
ApiDir      == <<"a", "p", "i", "/">>
ApiServerJs == <<"a", "p", "i", "/", "s", "e", "r", "v", "e", "r", ".", "j", "s">>
BuildDir    == <<"b", "u", "i", "l", "d", "/">>
SrcAppTs    == <<"/", "s", "r", "c", "/", "a", "p", "p", ".", "t", "s">>
DocsDir     == <<"d", "o", "c", "s", "/">>
DocsName    == <<"d", "o", "c", "s">>

\* the lines rule files are made of
Lines ==
  { StarJs \o <<" ">> \o Frontend,
    ApiStarJs \o <<" ">> \o Backend,
    ApiServerJs \o <<" ">> \o Backend,
    BuildDir,
    BuildDir \o <<" ", "t", "o", "d", "o">>,
    <<" ", " ">> \o StarJs \o <<"\t">> \o Backend \o <<" ", " ">> \o Frontend \o <<"\r">>,
    <<"#", " ">> \o StarJs \o <<" ">> \o Backend }

\* lines joined by "\n", as they stand in a file
RECURSIVE JoinLines(_)
JoinLines(ls) ==
  IF ls = <<>> THEN <<>>
  ELSE IF Len(ls) = 1 THEN ls[1]
  ELSE Head(ls) \o <<"\n">> \o JoinLines(Tail(ls))

\* the rule files of at most MaxLines lines
RuleFiles == UNION { { JoinLines(ls) : ls \in [1..n -> Lines] } : n \in 0..MaxLines }

\* the rule files the disk of the whole system may hold
SystemFiles ==
  { JoinLines(<<StarJs \o <<" ">> \o Frontend, ApiStarJs \o <<" ">> \o Backend>>),
    JoinLines(<<BuildDir \o <<" ", "t", "o", "d", "o">>, ApiDir \o <<" ">> \o Backend>>) }

\* the relative paths of the files the queries ask about
QueryPaths ==
  { ApiServerJs,
    <<"a", "p", "i", "\\", "s", "e", "r", "v", "e", "r", ".", "j", "s">>,
    <<"a", "p", "i", "/", "x", ".", "t", "s">>,
    <<"m", "a", "i", "n", ".", "j", "s">>,
    <<"b", "u", "i", "l", "d", "/", "o", ".", "j", "s">>,
    <<"s", "r", "c", "/", "a", "p", "i", "/", "a", ".", "j", "s">>,
    <<"r", "e", "a", "d", "m", "e", ".", "m", "d">> }

\* the files the queries ask about: the workspace folder that holds the file
\* (0 for a file outside the workspace) and the path relative to it
QueryFiles == ({1} \X QueryPaths) \cup {<<0, ApiServerJs>>}

QueryOwners == { Frontend, Backend, Nobody, UnownedName, OwnedByAllName }

Folders == 1..MaxFolders
Locations == DOMAIN codeownersLocations
Candidates == Folders \X Locations
Reloads == 1..MaxReloads

\* the candidate files in the order initialize() probes them: every folder for
\* the first location, then every folder for the second, ...
NumCandidates == Len(codeownersLocations) * workspaceFolders
Candidate(k) == <<((k - 1) % workspaceFolders) + 1, ((k - 1) \div workspaceFolders) + 1>>

----------------------------------------------------------------------------
(* The state machine.                                                      *)

NoQuery == [op |-> "none"]

\* the webview before its script has run initialize(): the variables as they
\* are declared, the button as the page has it, nothing posted
NoView ==
  [initialized |-> FALSE, hasCodeOwnersFile |-> FALSE, allOwners |-> <<>>,
   filteredOwners |-> <<>>, selectedOwner |-> <<>>, isDropdownOpen |-> FALSE,
   hideGitIgnoreFiles |-> TRUE, disabled |-> FALSE, badges |-> <<>>,
   badgesHidden |-> FALSE, reported |-> FALSE, posted |-> [type |-> "none"]]

\* no search was requested yet
NoSearch ==
  [pc |-> "idle", owner |-> <<>>, hideGitIgnoreFiles |-> TRUE, invoked |-> FALSE,
   message |-> "none", includePatterns |-> <<>>, excludePatterns |-> <<>>]

\* the state after construction, on a disk without rule files
Constructed ==
  /\ codeOwnerRules = <<>>
  /\ allOwners = {}
  /\ codeOwnersFilePath = Null
  /\ pc = [r \in Reloads |-> "idle"]
  /\ probe = [r \in Reloads |-> 0]
  /\ ret = [r \in Reloads |-> FALSE]
  /\ observed = NoQuery
  /\ search = NoSearch
  /\ webview = NoView

Init ==
  /\ workspaceFolders \in 0..MaxFolders
  /\ disk = [c \in Candidates |-> NoFile]
  /\ Constructed

service == <<codeOwnerRules, allOwners, codeOwnersFilePath>>
calls == <<pc, probe, ret>>

\* initialize() up to its first await: without workspace folders it resolves to
\* false, otherwise it asks for the stat of the first candidate
Initialize(r) ==
  /\ pc[r] = "idle"
  /\ \A q \in Reloads : q < r => pc[q] # "idle"
  /\ IF workspaceFolders = 0
     THEN /\ pc' = [pc EXCEPT ![r] = "done"]
          /\ ret' = [ret EXCEPT ![r] = FALSE]
          /\ UNCHANGED probe
     ELSE /\ pc' = [pc EXCEPT ![r] = "stat"]
          /\ probe' = [probe EXCEPT ![r] = 1]
          /\ UNCHANGED ret
  /\ UNCHANGED <<workspaceFolders, disk, service, observed, search, webview>>

\* the stat of a candidate settles: a missing file moves the call to the next
\* candidate (or, after the last, resolves it to false), a file is recorded as
\* the rule file and the call asks for its text
Stat(r) ==
  /\ pc[r] = "stat"
  /\ IF disk[Candidate(probe[r])] = NoFile
     THEN /\ IF probe[r] < NumCandidates
             THEN /\ probe' = [probe EXCEPT ![r] = probe[r] + 1]
                  /\ UNCHANGED <<pc, ret>>
             ELSE /\ pc' = [pc EXCEPT ![r] = "done"]
                  /\ ret' = [ret EXCEPT ![r] = FALSE]
                  /\ UNCHANGED probe
          /\ UNCHANGED codeOwnersFilePath
     ELSE /\ codeOwnersFilePath' = Candidate(probe[r])
          /\ pc' = [pc EXCEPT ![r] = "open"]
          /\ UNCHANGED <<probe, ret>>
  /\ UNCHANGED <<workspaceFolders, disk, codeOwnerRules, allOwners, observed, search, webview>>

\* Open whose catch empties the rule list and leaves the owner set alone
OpenDroppingRules(r) ==
  /\ pc[r] = "open"
  /\ IF disk[Candidate(probe[r])] = NoFile
     THEN codeOwnerRules' = <<>> /\ UNCHANGED allOwners
     ELSE LET parsed == parseCodeOwnersContent(disk[Candidate(probe[r])],
                                               codeOwnerRules, allOwners)
          IN  /\ codeOwnerRules' = parsed.codeOwnerRules
              /\ allOwners' = parsed.allOwners
  /\ pc' = [pc EXCEPT ![r] = "done"]
  /\ ret' = [ret EXCEPT ![r] = TRUE]
  /\ UNCHANGED <<workspaceFolders, disk, codeOwnersFilePath, probe, observed, search, webview>>

\* openTextDocument settles: the text is parsed into the service; a file that
\* can no longer be read is logged and leaves the service as it is; either
\* way initialize() resolves to true
Open(r) ==
  /\ pc[r] = "open"
  /\ IF disk[Candidate(probe[r])] = NoFile
     THEN UNCHANGED <<codeOwnerRules, allOwners>>
     ELSE LET parsed == parseCodeOwnersContent(disk[Candidate(probe[r])],
                                               codeOwnerRules, allOwners)
          IN  /\ codeOwnerRules' = parsed.codeOwnerRules
              /\ allOwners' = parsed.allOwners
  /\ pc' = [pc EXCEPT ![r] = "done"]
  /\ ret' = [ret EXCEPT ![r] = TRUE]
  /\ UNCHANGED <<workspaceFolders, disk, codeOwnersFilePath, probe, observed, search, webview>>

\* a caller asks for the owner of a file
Resolve(folder, relativePath) ==
  /\ observed' = [op |-> "resolve", folder |-> folder, arg |-> relativePath,
                  answer |-> getCodeOwnerForFile(codeOwnersFilePath, codeOwnerRules,
                                                 folder, relativePath)]
  /\ UNCHANGED <<workspaceFolders, disk, service, calls, search, webview>>

\* a caller asks for the pattern sets of an owner
Patterns(owner) ==
  /\ observed' = [op |-> "patterns", folder |-> 0, arg |-> owner,
                  answer |-> getFilePatternsForOwner(codeOwnerRules, owner)]
  /\ UNCHANGED <<workspaceFolders, disk, service, calls, search, webview>>

\* a caller asks for the owner list and for the presence of the rule file, as
\* _sendCodeOwners does
Owners ==
  /\ observed' = [op |-> "owners", folder |-> 0, arg |-> <<>>,
                  answer |-> [owners |-> getAllOwners(allOwners),
                              hasCodeOwnersFile |-> hasCodeOwnersFile(codeOwnersFilePath),
                              codeOwnersPath |-> getCodeOwnersFilePath(codeOwnersFilePath)]]
  /\ UNCHANGED <<workspaceFolders, disk, service, calls, search, webview>>

\* the user or a tool writes a rule file
WriteFile(c, content) ==
  /\ c[1] <= workspaceFolders
  /\ c[2] <= MaxPlaces
  /\ disk[c] # content
  /\ Cardinality({ d \in Candidates : d # c /\ disk[d] # NoFile }) < MaxFiles
  /\ disk' = [disk EXCEPT ![c] = content]
  /\ UNCHANGED <<workspaceFolders, service, calls, observed, search, webview>>

\* the user or a tool deletes a rule file
DeleteFile(c) ==
  /\ disk[c] # NoFile
  /\ disk' = [disk EXCEPT ![c] = NoFile]
  /\ UNCHANGED <<workspaceFolders, service, calls, observed, search, webview>>

Next ==
  \/ \E r \in Reloads : Initialize(r)
  \/ \E r \in Reloads : Stat(r)
  \/ \E r \in Reloads : Open(r)
  \/ \E folder \in 0..workspaceFolders : Resolve(folder, ApiServerJs)
  \/ Patterns(Frontend)
  \/ Owners
  \/ \E c \in Candidates, content \in SystemFiles : WriteFile(c, content)
  \/ \E c \in Candidates : DeleteFile(c)

Spec == Init /\ [][Next]_vars

----------------------------------------------------------------------------
(* The engine on one rule file: the file is in the first place initialize() *)
(* looks at and does not change, the service loads it once, and the queries *)
(* are put to it at every point of that load.                               *)

InitRules ==
  /\ workspaceFolders = 1
  /\ \E content \in RuleFiles :
       disk = [c \in Candidates |-> IF c = <<1, 1>> THEN content ELSE NoFile]
  /\ Constructed

NextRules ==
  \/ Initialize(1)
  \/ Stat(1)
  \/ Open(1)
  \/ \E f \in QueryFiles : Resolve(f[1], f[2])
  \/ \E o \in QueryOwners : Patterns(o)
  \/ Owners

SpecRules == InitRules /\ [][NextRules]_vars

----------------------------------------------------------------------------
(* The claims.                                                              *)

\* the answers of the service in the current state
resolve(f) == getCodeOwnerForFile(codeOwnersFilePath, codeOwnerRules, f[1], f[2])
patternsForOwner(o) == getFilePatternsForOwner(codeOwnerRules, o)

\* the files of the workspace the queries ask about, by normalized path
NormalizedFiles == { f \in QueryFiles : f[1] # 0 /\ normalizedPath(f[2]) = f[2] }

\* the owners that are not one of the two synthetic names
SpecificOwners == QueryOwners \ {UnownedName, OwnedByAllName}

\* the rules whose pattern matches a path
Matching(p) == { i \in DOMAIN codeOwnerRules : matchesPattern(p, codeOwnerRules[i].pattern) }

\* a pattern of a sequence of patterns matches a path
AnyMatches(patterns, p) == \E k \in DOMAIN patterns : matchesPattern(p, patterns[k])

\* the first load of the rule file has run to its end and found the file
Loaded == pc[1] = "done" /\ ret[1] = TRUE

\* the rule list of the scenario: *.js for @frontend, then /api/*.js for @backend
ScenarioRules ==
  << [pattern |-> StarJs, owners |-> <<Frontend>>],
     [pattern |-> ApiStarJs, owners |-> <<Backend>>] >>

\* C1: last match wins. Once a rule file is loaded, the owner of a file whose
\* normalized path is matched by at least one rule is given by the matching rule
\* of greatest index alone: its owner list as it stands, its pattern, and
\* isUnowned exactly when that list is empty.
C1_LastMatchWins ==
  codeOwnersFilePath # Null =>
    \A f \in NormalizedFiles :
      Matching(f[2]) # {} =>
        \E i \in Matching(f[2]) :
          /\ \A j \in Matching(f[2]) : j <= i
          /\ resolve(f).owners = codeOwnerRules[i].owners
          /\ resolve(f).matchingPattern = codeOwnerRules[i].pattern
          /\ resolve(f).isUnowned = (codeOwnerRules[i].owners = <<>>)

\* C1 witness: a query was answered, on a path that two rules with different
\* owner lists match, by the later of the two
C1_Witness ==
  /\ observed.op = "resolve"
  /\ <<observed.folder, observed.arg>> \in NormalizedFiles
  /\ observed.answer = resolve(<<observed.folder, observed.arg>>)
  /\ \E i, j \in Matching(observed.arg) :
       /\ i < j
       /\ codeOwnerRules[i].owners # codeOwnerRules[j].owners
       /\ codeOwnerRules[i].owners # <<>>
       /\ observed.answer.owners = codeOwnerRules[j].owners
       /\ observed.answer.isUnowned

\* C2: with the rules *.js @frontend and /api/*.js @backend, in that order, the
\* owner of api/server.js is @backend.
C2_RootWildcardOverrides ==
  (codeOwnersFilePath # Null /\ codeOwnerRules = ScenarioRules) =>
    resolve(<<1, ApiServerJs>>).owners = <<Backend>>

\* C3: soundness of the pattern sets. For a specific owner with a non-empty
\* include set, every file matched by an include pattern and by no exclude
\* pattern has that owner in its owner list.
C3_PatternSetsSound ==
  \A o \in SpecificOwners :
    patternsForOwner(o).includePatterns # <<>> =>
      \A f \in NormalizedFiles :
        ( /\ AnyMatches(patternsForOwner(o).includePatterns, f[2])
          /\ ~AnyMatches(patternsForOwner(o).excludePatterns, f[2]) )
        => o \in Range(resolve(f).owners)

\* C4: completeness of the pattern sets. Every file that has a specific owner in
\* its owner list is matched by an include pattern of that owner and by none of
\* its exclude patterns.
C4_PatternSetsComplete ==
  \A o \in SpecificOwners :
    \A f \in NormalizedFiles :
      o \in Range(resolve(f).owners) =>
        /\ AnyMatches(patternsForOwner(o).includePatterns, f[2])
        /\ ~AnyMatches(patternsForOwner(o).excludePatterns, f[2])

\* the pattern is "*." followed by an extension
IsExtensionPattern(p) == Len(p) > 2 /\ p[1] = "*" /\ p[2] = "."

\* the pattern contains a slash and ends with the extension, dot included, of
\* the extension pattern e
PathQualifiedFor(p, e) ==
  /\ \E k \in DOMAIN p : p[k] = "/"
  /\ Len(p) >= Len(e) - 1
  /\ \A k \in 2..Len(e) : p[Len(p) - Len(e) + k] = e[k]

\* C5: when an owner has a rule with an extension pattern and a later rule, which
\* does not name the owner and whose pattern is none of the owner's, has a
\* pattern with a slash that ends with that extension, the owner's pattern sets
\* include the extension pattern and exclude the later pattern; in the scenario
\* they are exactly {*.js} and {/api/*.js}.
C5_ExtensionOverrideExcluded ==
  /\ \A o \in SpecificOwners :
       \A i, j \in DOMAIN codeOwnerRules :
         ( /\ i < j
           /\ o \in Range(codeOwnerRules[i].owners)
           /\ IsExtensionPattern(codeOwnerRules[i].pattern)
           /\ PathQualifiedFor(codeOwnerRules[j].pattern, codeOwnerRules[i].pattern)
           /\ o \notin Range(codeOwnerRules[j].owners)
           /\ \A k \in DOMAIN codeOwnerRules :
                o \in Range(codeOwnerRules[k].owners)
                  => codeOwnerRules[k].pattern # codeOwnerRules[j].pattern )
         => /\ codeOwnerRules[i].pattern \in Range(patternsForOwner(o).includePatterns)
            /\ codeOwnerRules[j].pattern \in Range(patternsForOwner(o).excludePatterns)
  /\ codeOwnerRules = ScenarioRules =>
       patternsForOwner(Frontend) =
         [includePatterns |-> <<StarJs>>, excludePatterns |-> <<ApiStarJs>>]

\* C5 witness: the pattern sets of @frontend were asked for on the rules of the
\* scenario, and the answer excludes /api/*.js
C5_Witness ==
  /\ observed.op = "patterns"
  /\ observed.arg = Frontend
  /\ codeOwnerRules = ScenarioRules
  /\ observed.answer = patternsForOwner(Frontend)
  /\ observed.answer.excludePatterns = <<ApiStarJs>>

\* the lines of the rule file the service loads
FileLines == SplitOn(disk[<<1, 1>>], "\n", <<>>)

\* the line is blank or a comment
BlankOrComment(line) == Trim(line) = <<>> \/ Trim(line)[1] = "#"

\* every file of the workspace is reported unowned, without owners
AllUnowned ==
  \A f \in QueryFiles : resolve(f).isUnowned /\ resolve(f).owners = <<>>

\* C6 as claimed: after the load of a rule file without rule lines,
\* hasCodeOwnersFile() is false, every file is unowned and there are no owners.
C6_EmptyFileNotReported ==
  (Loaded /\ \A k \in DOMAIN FileLines : BlankOrComment(FileLines[k])) =>
    /\ hasCodeOwnersFile(codeOwnersFilePath) = FALSE
    /\ AllUnowned
    /\ getAllOwners(allOwners) = <<>>

\* C6 as amended: after the load of a rule file without rule lines,
\* hasCodeOwnersFile() is true (the file was found), every file is unowned and
\* there are no owners.
C6_EmptyFileLoaded ==
  (Loaded /\ \A k \in DOMAIN FileLines : BlankOrComment(FileLines[k])) =>
    /\ hasCodeOwnersFile(codeOwnersFilePath) = TRUE
    /\ AllUnowned
    /\ getAllOwners(allOwners) = <<>>

\* C6 witness: a file of comments only was loaded, and the owner list and the
\* presence of the file were asked for afterwards
C6_Witness ==
  /\ Loaded
  /\ disk[<<1, 1>>] # <<>>
  /\ \A k \in DOMAIN FileLines : BlankOrComment(FileLines[k])
  /\ observed.op = "owners"
  /\ observed.answer.hasCodeOwnersFile
  /\ observed.answer.owners = <<>>

\* the tokens of a line that is neither blank nor a comment
Tokens(line) == SplitSpaces(Trim(line), <<>>)

\* no token after the pattern is an owner
NoOwnerTokens(line) ==
  \A k \in 2..Len(Tokens(line)) : \A n \in DOMAIN Tokens(line)[k] : Tokens(line)[k][n] # "@"

\* C7: every line that is neither blank nor a comment and has no owner token,
\* a line made of a pattern alone included, puts an owners-empty rule in the
\* rule list, and its pattern is in the include set of "unowned".
C7_OwnerlessLineKept ==
  Loaded =>
    \A k \in DOMAIN FileLines :
      (~BlankOrComment(FileLines[k]) /\ NoOwnerTokens(FileLines[k])) =>
        /\ \E i \in DOMAIN codeOwnerRules :
             /\ codeOwnerRules[i].pattern = Tokens(FileLines[k])[1]
             /\ codeOwnerRules[i].owners = <<>>
        /\ Tokens(FileLines[k])[1] \in Range(patternsForOwner(UnownedName).includePatterns)

----------------------------------------------------------------------------
(* The matcher alone, on patterns and paths drawn from bounded sets.        *)

Segments ==
  { DocsName, <<"m", "y">> \o DocsName, <<"a">>, <<"s", "r", "c">>, <<"l", "i", "b">>,
    <<"a", "p", "p", ".", "t", "s">>, <<"a", "p", "p", ".", "t", "s", "x">>,
    <<"b", ".", "t", "x", "t">>, <<"x", ".", "t", "x", "t">>,
    <<"r", "e", "a", "d", "m", "e", ".", "m", "d">> }

RECURSIVE JoinPath(_)
JoinPath(segs) ==
  IF Len(segs) = 1 THEN segs[1] ELSE Head(segs) \o <<"/">> \o JoinPath(Tail(segs))

\* the normalized paths of at most MaxDepth segments
MatchPaths == UNION { { JoinPath(segs) : segs \in [1..n -> Segments] } : n \in 1..MaxDepth }

\* the pattern "?.txt"
AnyTxt == <<"?", ".", "t", "x", "t">>

MatchPatterns ==
  { SrcAppTs, DocsDir, DocsName, <<"/">> \o DocsDir, <<"/">> \o DocsName,
    <<"a", "/">> \o DocsDir, <<"s", "r", "c", "/">>, <<"*">>,
    <<"*", ".", "t", "s">>, <<"a", "p", "p", ".", "t", "s">>,
    <<"s", "r", "c", "/", "*", ".", "t", "s">>, <<"/", "s", "r", "c", "/", "*">>,
    AnyTxt }

\* a call of the matcher is pending on a path and a pattern
InitMatch ==
  /\ workspaceFolders = 0
  /\ disk = [c \in Candidates |-> NoFile]
  /\ codeOwnerRules = <<>>
  /\ allOwners = {}
  /\ codeOwnersFilePath = Null
  /\ pc = [r \in Reloads |-> "idle"]
  /\ probe = [r \in Reloads |-> 0]
  /\ ret = [r \in Reloads |-> FALSE]
  /\ search = NoSearch
  /\ webview = NoView
  /\ \E filePath \in MatchPaths, pattern \in MatchPatterns :
       observed = [op |-> "call", folder |-> 0, arg |-> filePath, pattern |-> pattern]

\* the pending call of the matcher returns
Match ==
  /\ observed.op = "call"
  /\ observed' = [op |-> "match", folder |-> 0, arg |-> observed.arg,
                  pattern |-> observed.pattern,
                  answer |-> matchesPattern(observed.arg, observed.pattern)]
  /\ UNCHANGED <<workspaceFolders, disk, service, calls, search, webview>>

NextMatch == Match

SpecMatch == InitMatch /\ [][NextMatch]_vars

\* C8: the root-anchored pattern /src/app.ts matches src/app.ts and no other
\* path.
C8_RootFileMatchesOnlyItself ==
  (observed.op = "match" /\ observed.pattern = SrcAppTs) =>
    (observed.answer <=> observed.arg = SliceFrom(SrcAppTs, 1))

\* the pattern is a directory pattern that does not start at the root
UnanchoredDirectory(d) ==
  /\ d # <<>>
  /\ d[Len(d)] = "/" \/ \A k \in DOMAIN d : d[k] \notin {"*", "."}
  /\ d[1] # "/"

\* the directory name of a directory pattern: the pattern without a closing "/"
Token(d) == IF d[Len(d)] = "/" THEN SubSeq(d, 1, Len(d) - 1) ELSE d

\* the string s stands in the string p from position i on
OccursAt(p, s, i) ==
  /\ i >= 1
  /\ i + Len(s) - 1 <= Len(p)
  /\ \A k \in DOMAIN s : p[i + k - 1] = s[k]

\* C9: an unanchored directory pattern matches a path exactly when the path is
\* the directory name, starts with the name and "/", or holds "/", the name and
\* "/" somewhere; docs/ matches docs/readme.md and a/docs/b.txt and does not
\* match mydocs/x.txt.
C9_UnanchoredDirectory ==
  (observed.op = "match" /\ UnanchoredDirectory(observed.pattern)) =>
    ( observed.answer <=>
        \/ observed.arg = Token(observed.pattern)
        \/ OccursAt(observed.arg, Token(observed.pattern) \o <<"/">>, 1)
        \/ \E i \in DOMAIN observed.arg :
             OccursAt(observed.arg, <<"/">> \o Token(observed.pattern) \o <<"/">>, i) )

\* C9 witness: docs/ was matched against a/docs/b.txt, and matched
C9_Witness ==
  /\ observed.op = "match"
  /\ observed.pattern = DocsDir
  /\ observed.arg = <<"a", "/", "d", "o", "c", "s", "/", "b", ".", "t", "x", "t">>
  /\ observed.answer

\* the three fields a query reads
snapshot == <<codeOwnersFilePath, codeOwnerRules, allOwners>>

\* C10: a reload is atomic. In the state the first load leaves behind it just
\* before it completes, a state in which a query may run, the rule-file path,
\* the rule list and the owner set are those of before the load (the constructed
\* service) or those of after it.
C10_AtomicReload ==
  [][ ( /\ pc[1] = "open"
        /\ pc'[1] = "done"
        /\ \A r \in Reloads \ {1} : pc[r] = "idle" )
      => ( \/ snapshot = <<Null, <<>>, {}>>
           \/ snapshot = snapshot' ) ]_vars

\* r is the call of initialize() that started last, and every call before it
\* has come to its end
LastCall(r) ==
  /\ \A q \in Reloads : q < r => pc[q] = "done"
  /\ \A q \in Reloads : q > r => pc[q] = "idle"

\* C11: a reload that finds no rule file in any place (none is on the disk)
\* leaves the service in the state of "no file": no rules, hasCodeOwnersFile()
\* false, no owners, every file unowned, whatever an earlier load had
\* installed.
C11_ReloadWithoutFileClears ==
  [][ \A r \in Reloads :
        ( /\ LastCall(r)
          /\ \A c \in Candidates : disk[c] = NoFile
          /\ pc[r] # "done"
          /\ pc'[r] = "done"
          /\ ret'[r] = FALSE )
        => /\ codeOwnerRules' = <<>>
           /\ hasCodeOwnersFile(codeOwnersFilePath') = FALSE
           /\ getAllOwners(allOwners') = <<>>
           /\ \A f \in QueryFiles :
                getCodeOwnerForFile(codeOwnersFilePath', codeOwnerRules', f[1], f[2])
                  = Unowned ]_vars

\* C12: the owner of a file is the default answer (no owners, unowned, no
\* matching pattern) whenever no rule file was ever found, the rule list is
\* empty, the file lies in no workspace folder, or no rule matches its
\* normalized path.
C12_DefaultAnswer ==
  \A f \in QueryFiles :
    ( \/ codeOwnersFilePath = Null
      \/ Len(codeOwnerRules) = 0
      \/ f[1] = 0
      \/ Matching(normalizedPath(f[2])) = {} )
    => /\ resolve(f).owners = <<>>
       /\ resolve(f).isUnowned = TRUE
       /\ resolve(f).matchingPattern = Undefined

\* C12 witness: with rules loaded that match api/server.js, the owner of that
\* path in a file outside every workspace folder was asked for, and the
\* answer was the default
C12_Witness ==
  /\ observed.op = "resolve"
  /\ observed.folder = 0
  /\ codeOwnersFilePath # Null
  /\ Matching(normalizedPath(observed.arg)) # {}
  /\ observed.answer = resolve(<<0, observed.arg>>)
  /\ observed.answer = Unowned

\* the rules and the owners the text leaves in a service that has parsed
\* nothing before
FirstParse(content) == parseCodeOwnersContent(content, <<>>, {})

\* C13: parsing is idempotent. Whatever the service has parsed before, the
\* parse of a text leaves the rule list and the owner set that the first parse
\* of that text leaves: nothing of an earlier parse survives or is doubled.
C13_ParseIdempotent ==
  [][ \A r \in Reloads :
        ( /\ pc[r] = "open"
          /\ pc'[r] = "done"
          /\ disk[Candidate(probe[r])] # NoFile )
        => /\ codeOwnerRules' = FirstParse(disk[Candidate(probe[r])]).codeOwnerRules
           /\ allOwners' = FirstParse(disk[Candidate(probe[r])]).allOwners ]_vars

\* C13 witness: two calls of initialize() have parsed a text one after the
\* other, the second on the rules the first had left, and the service holds
\* the rules of the text on the disk
C13_Witness ==
  /\ pc[1] = "done" /\ ret[1] = TRUE
  /\ pc[2] = "done" /\ ret[2] = TRUE
  /\ codeOwnersFilePath # Null
  /\ disk[codeOwnersFilePath] # NoFile
  /\ codeOwnerRules # <<>>
  /\ codeOwnerRules = FirstParse(disk[codeOwnersFilePath]).codeOwnerRules

\* a stands before b in the order of UTF-16 code units: at the first position
\* where they differ a has the smaller character, or a ends there and b goes on
Before(a, b) ==
  \E k \in 1..Len(b) :
    /\ k <= Len(a) + 1
    /\ SubSeq(a, 1, k - 1) = SubSeq(b, 1, k - 1)
    /\ (k = Len(a) + 1 \/ CharCode(a[k]) < CharCode(b[k]))

\* the owner tokens that stand in the owner list of a rule of the rule list
OwnersOfRules == UNION { Range(codeOwnerRules[i].owners) : i \in DOMAIN codeOwnerRules }

\* C14: getAllOwners() is strictly ascending (so sorted and free of duplicates)
\* and its elements are exactly the owner tokens that stand in the owner list
\* of at least one rule of the current rule list.
C14_OwnersSortedExact ==
  LET owners == getAllOwners(allOwners)
  IN  /\ \A i, j \in DOMAIN owners : i < j => Before(owners[i], owners[j])
      /\ Range(owners) = OwnersOfRules

\* the file names @frontend before @backend, one of them twice, and the owner
\* list was asked for: it names each once, @backend first
C14_Witness ==
  /\ Loaded
  /\ Len(codeOwnerRules) = 3
  /\ codeOwnerRules[1].owners = <<Frontend>>
  /\ codeOwnerRules[2].owners = <<Backend, Frontend>>
  /\ observed.op = "owners"
  /\ observed.answer.owners = getAllOwners(allOwners)
  /\ observed.answer.owners = <<Backend, Frontend>>

\* the patterns of the rules without owners, and of the rules with owners
UnownedRulePatterns ==
  { codeOwnerRules[i].pattern : i \in { j \in DOMAIN codeOwnerRules : codeOwnerRules[j].owners = <<>> } }
OwnedRulePatterns ==
  { codeOwnerRules[i].pattern : i \in { j \in DOMAIN codeOwnerRules : codeOwnerRules[j].owners # <<>> } }

\* C15: for "unowned", if a rule without owners exists the include patterns are
\* exactly the patterns of the rules without owners and there is no exclude
\* pattern; otherwise the include patterns are exactly "**/*" and the exclude
\* patterns exactly the patterns of the rules that have owners.
C15_UnownedPatterns ==
  LET answer == patternsForOwner(UnownedName)
  IN  IF UnownedRulePatterns # {}
      THEN /\ Range(answer.includePatterns) = UnownedRulePatterns
           /\ answer.excludePatterns = <<>>
      ELSE /\ Range(answer.includePatterns) = {AnyFile}
           /\ Range(answer.excludePatterns) = OwnedRulePatterns

\* a file with a rule without owners and a rule with owners was loaded and
\* "unowned" was asked for: the first is included, nothing is excluded
C15_Witness ==
  /\ Loaded
  /\ UnownedRulePatterns = {BuildDir}
  /\ OwnedRulePatterns # {}
  /\ observed.op = "patterns"
  /\ observed.arg = UnownedName
  /\ observed.answer = patternsForOwner(UnownedName)
  /\ observed.answer = [includePatterns |-> <<BuildDir>>, excludePatterns |-> <<>>]

\* C16: for "owned-by-all", if a rule with owners exists the include patterns
\* are exactly the patterns of the rules with owners; if none exists they are
\* exactly "**/*" and the exclude patterns are the patterns of the rules
\* without owners.
C16_AllOwnedPatterns ==
  LET answer == patternsForOwner(OwnedByAllName)
  IN  IF OwnedRulePatterns # {}
      THEN Range(answer.includePatterns) = OwnedRulePatterns
      ELSE /\ Range(answer.includePatterns) = {AnyFile}
           /\ Range(answer.excludePatterns) = UnownedRulePatterns

\* a file whose only rules have no owners was loaded and "owned-by-all" was
\* asked for: everything is included but the patterns of those rules
C16_Witness ==
  /\ Loaded
  /\ OwnedRulePatterns = {}
  /\ UnownedRulePatterns = {BuildDir}
  /\ observed.op = "patterns"
  /\ observed.arg = OwnedByAllName
  /\ observed.answer = patternsForOwner(OwnedByAllName)
  /\ observed.answer.includePatterns = <<AnyFile>>
  /\ Range(observed.answer.excludePatterns) = {BuildDir}

\* no element stands twice in a sequence
NoDuplicates(seq) == \A i, j \in DOMAIN seq : seq[i] = seq[j] => i = j

\* C17: for every owner argument, a specific owner, "unowned" or
\* "owned-by-all", neither the include patterns nor the exclude patterns hold
\* the same pattern twice.
C17_NoDuplicatePatterns ==
  \A o \in QueryOwners :
    /\ NoDuplicates(patternsForOwner(o).includePatterns)
    /\ NoDuplicates(patternsForOwner(o).excludePatterns)

\* C18: for a specific owner no pattern is both an include and an exclude
\* pattern, and no pattern of a rule that names the owner is an exclude pattern.
C18_IncludeExcludeDisjoint ==
  \A o \in SpecificOwners :
    LET answer == patternsForOwner(o)
        own == { codeOwnerRules[i].pattern :
                   i \in { j \in DOMAIN codeOwnerRules : o \in Range(codeOwnerRules[j].owners) } }
    IN  /\ Range(answer.includePatterns) \cap Range(answer.excludePatterns) = {}
        /\ own \cap Range(answer.excludePatterns) = {}

\* "*.js" names @backend and @frontend, a later "*.js" names @frontend alone,
\* and the patterns of @backend were asked for: "*.js" is included, not excluded
C18_Witness ==
  /\ Loaded
  /\ Len(codeOwnerRules) = 2
  /\ codeOwnerRules[1] = [pattern |-> StarJs, owners |-> <<Backend, Frontend>>]
  /\ codeOwnerRules[2] = [pattern |-> StarJs, owners |-> <<Frontend>>]
  /\ observed.op = "patterns"
  /\ observed.arg = Backend
  /\ observed.answer = patternsForOwner(Backend)
  /\ observed.answer = [includePatterns |-> <<StarJs>>, excludePatterns |-> <<>>]

\* the rules that name an owner
RulesOf(o) == { i \in DOMAIN codeOwnerRules : o \in Range(codeOwnerRules[i].owners) }

\* the exclude patterns of an owner as the rule list defines them: the pattern
\* of a rule that stands after a rule of the owner, would override it and does
\* not name the owner, unless it is a pattern of a rule of the owner
ExcludedFor(o) ==
  { q \in { codeOwnerRules[i].pattern : i \in DOMAIN codeOwnerRules } :
      /\ \A r \in RulesOf(o) : codeOwnerRules[r].pattern # q
      /\ \E r \in RulesOf(o) : \E r2 \in DOMAIN codeOwnerRules :
            /\ r2 > r
            /\ codeOwnerRules[r2].pattern = q
            /\ wouldOverride(codeOwnerRules[r].pattern, q)
            /\ o \notin Range(codeOwnerRules[r2].owners) }

\* C20: for a specific owner the exclude patterns are exactly the patterns
\* that are no pattern of a rule of the owner and belong to a rule that stands
\* at a strictly greater index than a rule of the owner, would override that
\* rule's pattern and does not name the owner; an owner of no rule gets two
\* empty sets.
C20_ExactExcludeSet ==
  \A o \in SpecificOwners :
    IF RulesOf(o) = {}
    THEN patternsForOwner(o) = [includePatterns |-> <<>>, excludePatterns |-> <<>>]
    ELSE Range(patternsForOwner(o).excludePatterns) = ExcludedFor(o)

\* "*.js" of @frontend stands between two rules of @backend that would both
\* override it, and the patterns of @frontend were asked for: only the pattern
\* of the later rule is excluded
C20_Witness ==
  /\ Loaded
  /\ Len(codeOwnerRules) = 3
  /\ codeOwnerRules[1] = [pattern |-> ApiServerJs, owners |-> <<Backend>>]
  /\ codeOwnerRules[2] = [pattern |-> StarJs, owners |-> <<Frontend>>]
  /\ codeOwnerRules[3] = [pattern |-> ApiStarJs, owners |-> <<Backend>>]
  /\ wouldOverride(StarJs, ApiServerJs)
  /\ observed.op = "patterns"
  /\ observed.arg = Frontend
  /\ observed.answer = patternsForOwner(Frontend)
  /\ observed.answer = [includePatterns |-> <<StarJs>>, excludePatterns |-> <<ApiStarJs>>]

----------------------------------------------------------------------------
(* The search request of the view: _searchByCodeOwner, stepped at its      *)
(* awaits, while the rule file is being loaded.                            *)

\* GitIgnoreService, as the request reads it
hasGitIgnoreFile(gitIgnore) == gitIgnore.gitIgnoreFilePath # Null
getIgnorePatterns(gitIgnore) == gitIgnore.gitIgnorePatterns

DotGitIgnore == <<".", "g", "i", "t", "i", "g", "n", "o", "r", "e">>
DistGlob == <<"*", "*", "/", "d", "i", "s", "t">>

\* the states of the GitIgnoreService: no file, a file without patterns, a
\* file with one pattern
GitIgnoreStates ==
  { [gitIgnoreFilePath |-> Null, gitIgnorePatterns |-> <<>>],
    [gitIgnoreFilePath |-> DotGitIgnore, gitIgnorePatterns |-> <<>>],
    [gitIgnoreFilePath |-> DotGitIgnore, gitIgnorePatterns |-> <<DistGlob>>] }

\* the message "searchByCodeOwner" arrives: without a rule file the request
\* warns and returns, otherwise it asks the host to show the search view
SearchByCodeOwner(owner, hideGitIgnoreFiles) ==
  /\ search.pc \in {"idle", "done"}
  /\ IF ~hasCodeOwnersFile(codeOwnersFilePath)
     THEN search' = [pc |-> "done", owner |-> owner,
                     hideGitIgnoreFiles |-> hideGitIgnoreFiles, invoked |-> FALSE,
                     message |-> "warning",
                     includePatterns |-> <<>>, excludePatterns |-> <<>>]
     ELSE search' = [pc |-> "view", owner |-> owner,
                     hideGitIgnoreFiles |-> hideGitIgnoreFiles, invoked |-> FALSE,
                     message |-> "none",
                     includePatterns |-> <<>>, excludePatterns |-> <<>>]
  /\ UNCHANGED <<workspaceFolders, disk, service, calls, observed, webview>>

\* a command awaited before the filters are computed is rejected: the outer
\* catch shows an error
SearchViewFails ==
  /\ search.pc = "view"
  /\ search' = [search EXCEPT !.pc = "done", !.message = "error"]
  /\ UNCHANGED <<workspaceFolders, disk, service, calls, observed, webview>>

\* the request with the test of includePatterns.length left out
ApplyFiltersUnchecked(gitIgnore) ==
  /\ search.pc = "view"
  /\ LET ownership == getFilePatternsForOwner(codeOwnerRules, search.owner)
         includePatterns == generateIncludePatterns(ownership.includePatterns)
         excludePatterns ==
           generateExcludePatterns(ownership.excludePatterns)
           \o (IF search.hideGitIgnoreFiles /\ hasGitIgnoreFile(gitIgnore)
               THEN getIgnorePatterns(gitIgnore) ELSE <<>>)
     IN  search' = [search EXCEPT !.pc = "find", !.invoked = TRUE,
                                  !.includePatterns = includePatterns,
                                  !.excludePatterns = excludePatterns]
  /\ UNCHANGED <<workspaceFolders, disk, service, calls, observed, webview>>

\* the search view is shown and the current query was read: the request
\* computes the filters of the owner from the rules the service holds now,
\* adds the gitignore patterns to the excludes, and either reports that the
\* owner has no files or invokes workbench.action.findInFiles
ApplyFilters(gitIgnore) ==
  /\ search.pc = "view"
  /\ LET ownership == getFilePatternsForOwner(codeOwnerRules, search.owner)
         includePatterns == generateIncludePatterns(ownership.includePatterns)
         excludePatterns ==
           generateExcludePatterns(ownership.excludePatterns)
           \o (IF search.hideGitIgnoreFiles /\ hasGitIgnoreFile(gitIgnore)
               THEN getIgnorePatterns(gitIgnore) ELSE <<>>)
     IN  IF Len(includePatterns) = 0
         THEN search' = [search EXCEPT !.pc = "done", !.message = "nofiles",
                                      !.includePatterns = includePatterns,
                                      !.excludePatterns = excludePatterns]
         ELSE search' = [search EXCEPT !.pc = "find", !.invoked = TRUE,
                                      !.includePatterns = includePatterns,
                                      !.excludePatterns = excludePatterns]
  /\ UNCHANGED <<workspaceFolders, disk, service, calls, observed, webview>>

\* workbench.action.findInFiles settles: the filters are reported as applied,
\* or, when it was rejected, through the fallback message, or, when the
\* fallback was rejected too, as an error
FindInFilesOutcomes == {"applied", "fallback", "error"}

FindInFiles(outcome) ==
  /\ search.pc = "find"
  /\ search' = [search EXCEPT !.pc = "done", !.message = outcome]
  /\ UNCHANGED <<workspaceFolders, disk, service, calls, observed, webview>>

\* the rule files of the search requests: those of the whole system and one
\* with a directory pattern that starts at the root, "/docs/ @frontend"
SearchFiles == SystemFiles \cup { <<"/">> \o DocsDir \o <<" ">> \o Frontend }

\* a rule file, or none, in the first place initialize() looks at
InitSearch ==
  /\ workspaceFolders = 1
  /\ \E content \in SearchFiles \cup {NoFile} :
       disk = [c \in Candidates |-> IF c = <<1, 1>> THEN content ELSE NoFile]
  /\ Constructed

NextSearch ==
  \/ Initialize(1)
  \/ Stat(1)
  \/ Open(1)
  \/ \E owner \in QueryOwners, hideGitIgnoreFiles \in BOOLEAN :
       SearchByCodeOwner(owner, hideGitIgnoreFiles)
  \/ SearchViewFails
  \/ \E gitIgnore \in GitIgnoreStates : ApplyFilters(gitIgnore)
  \/ \E outcome \in FindInFilesOutcomes : FindInFiles(outcome)

SpecSearch == InitSearch /\ [][NextSearch]_vars

\* C19: a search request invokes find-in-files only when the service has a
\* rule file and the owner's include set is not empty (for a specific owner:
\* only when a rule names the owner); a request for a specific owner that no
\* rule names, once its filters are computed, reports that no files were
\* found, whether or not gitignore patterns were added; and a request made
\* while hasCodeOwnersFile() is false ends at once with the warning.
C19_NoSearchWithoutFiles ==
  [][ /\ (search'.invoked /\ ~search.invoked)
           => /\ hasCodeOwnersFile(codeOwnersFilePath)
              /\ search'.includePatterns # <<>>
              /\ search.owner \in SpecificOwners => RulesOf(search.owner) # {}
      /\ ( /\ search.pc = "view" /\ search'.pc # "view"
           /\ search'.message # "error"
           /\ search.owner \in SpecificOwners
           /\ RulesOf(search.owner) = {} )
           => /\ search'.pc = "done"
              /\ ~search'.invoked
              /\ search'.message = "nofiles"
      /\ ( /\ search.pc \in {"idle", "done"} /\ search'.pc \in {"view", "done"}
           /\ search' # search
           /\ ~hasCodeOwnersFile(codeOwnersFilePath) )
           => /\ search'.pc = "done"
              /\ ~search'.invoked
              /\ search'.message = "warning" ]_vars

\* the rule file is loaded and names @backend alone; a search for @frontend
\* with the gitignore patterns added ended without an invocation, with the
\* message that no files were found, its exclude patterns not empty
C19_Witness ==
  /\ Loaded
  /\ codeOwnerRules # <<>>
  /\ RulesOf(Frontend) = {}
  /\ search.pc = "done"
  /\ search.owner = Frontend
  /\ search.hideGitIgnoreFiles
  /\ search.includePatterns = <<>>
  /\ search.excludePatterns = <<DistGlob>>
  /\ ~search.invoked
  /\ search.message = "nofiles"

----------------------------------------------------------------------------
(* The override test alone, on pairs of patterns drawn from a bounded set. *)

StarTs     == <<"*", ".", "t", "s">>
SrcStarTs  == <<"s", "r", "c", "/", "*", ".", "t", "s">>
SrcLibTs   == <<"s", "r", "c", "/", "l", "i", "b", "/", "*", ".", "t", "s">>
SrcLibTxt  == <<"s", "r", "c", "/", "l", "i", "b", "/", "*", ".", "t", "x", "t">>
LibStarTs  == <<"l", "i", "b", "/", "*", ".", "t", "s">>
Lib2StarTs == <<"l", "i", "b", "2", "/", "*", ".", "t", "s">>
StarTsApp  == <<"*", ".", "t", "s", "/", "a", "p", "p", ".", "t", "s">>

OverridePatterns ==
  { StarTs, SliceFrom(SrcAppTs, 1), SrcAppTs, SrcStarTs, SrcLibTs, SrcLibTxt,
    LibStarTs, Lib2StarTs, StarTsApp, DocsDir, <<"/">> \o DocsDir, <<"a", "/">> \o DocsDir }

OverrideSegments ==
  { DocsName, <<"a">>, <<"s", "r", "c">>, <<"l", "i", "b">>, <<"l", "i", "b", "2">>,
    <<"a", "p", "p", ".", "t", "s">>, <<"b", ".", "t", "x", "t">> }

\* the paths of one to four segments the patterns are compared on
OverridePaths == UNION { { JoinPath(segs) : segs \in [1..n -> OverrideSegments] } : n \in 1..4 }

\* a call of wouldOverride is pending on an earlier and a later pattern
InitOverride ==
  /\ workspaceFolders = 0
  /\ disk = [c \in Candidates |-> NoFile]
  /\ codeOwnerRules = <<>>
  /\ allOwners = {}
  /\ codeOwnersFilePath = Null
  /\ pc = [r \in Reloads |-> "idle"]
  /\ probe = [r \in Reloads |-> 0]
  /\ ret = [r \in Reloads |-> FALSE]
  /\ search = NoSearch
  /\ webview = NoView
  /\ \E earlierPattern \in OverridePatterns, laterPattern \in OverridePatterns :
       observed = [op |-> "ask", folder |-> 0, arg |-> earlierPattern,
                   pattern |-> laterPattern]

\* the pending call of wouldOverride returns
WouldOverride ==
  /\ observed.op = "ask"
  /\ observed' = [op |-> "override", folder |-> 0, arg |-> observed.arg,
                  pattern |-> observed.pattern,
                  answer |-> wouldOverride(observed.arg, observed.pattern)]
  /\ UNCHANGED <<workspaceFolders, disk, service, calls, search, webview>>

NextOverride == WouldOverride

SpecOverride == InitOverride /\ [][NextOverride]_vars

\* the two patterns match a common path
ShareFiles(a, b) == \E f \in OverridePaths : matchesPattern(f, a) /\ matchesPattern(f, b)

\* C21: whenever wouldOverride(earlier, later) is true, some path is matched
\* by both patterns.
C21_OverrideSharesFiles ==
  (observed.op = "override" /\ observed.answer)
    => ShareFiles(observed.arg, observed.pattern)

\* C22: wouldOverride(a, a) is true, and for distinct patterns a and b
\* wouldOverride(a, b) and wouldOverride(b, a) are never both true.
C22_Asymmetric ==
  observed.op = "override" =>
    IF observed.arg = observed.pattern
    THEN observed.answer
    ELSE ~(observed.answer /\ wouldOverride(observed.pattern, observed.arg))

\* src/lib/*.ts was reported to override src/*.ts, and not the other way round
C22_Witness ==
  /\ observed.op = "override"
  /\ observed.arg = SrcStarTs
  /\ observed.pattern = SrcLibTs
  /\ observed.answer
  /\ ~wouldOverride(SrcLibTs, SrcStarTs)

\* the pattern is none of the global, directory, extension and root-anchored
\* cases of the matcher
FallsThrough(pattern) ==
  /\ pattern # <<"*">>
  /\ ~EndsWith(pattern, <<"/">>)
  /\ Includes(pattern, <<"*">>) \/ Includes(pattern, <<".">>)
  /\ ~StartsWith(pattern, <<"*", ".">>)
  /\ ~StartsWith(pattern, <<"/">>)

\* C23: a pattern that contains "?" and is none of the global, directory,
\* extension and root-anchored cases matches a path exactly when its wildcard
\* translation, "?" for one character, matches the whole path; "?.txt"
\* matches "b.txt".
C23_QuestionMarkWildcard ==
  ( /\ observed.op = "match"
    /\ Includes(observed.pattern, <<"?">>)
    /\ FallsThrough(observed.pattern) )
  => (observed.answer <=> RegexTest(regexPattern(observed.pattern), observed.arg))

\* the end of a glob that descends into a directory: "/**/*"
RecursiveTail == <<"/">> \o AnyFile

\* C24: when a search request renders the patterns of its owner, every
\* pattern that ends with "/", also one that begins with "/", is rendered as
\* a glob that ends with "/**/*".
C24_DirectoryGlobRecursive ==
  [][ (search.pc = "view" /\ search'.pc \in {"find", "done"} /\ search'.message # "error")
      => LET ownership == getFilePatternsForOwner(codeOwnerRules, search.owner)
         IN  /\ \A k \in DOMAIN ownership.includePatterns :
                  EndsWith(ownership.includePatterns[k], <<"/">>)
                    => EndsWith(search'.includePatterns[k], RecursiveTail)
             /\ \A k \in DOMAIN ownership.excludePatterns :
                  EndsWith(ownership.excludePatterns[k], <<"/">>)
                    => EndsWith(search'.excludePatterns[k], RecursiveTail) ]_vars

\* the first n elements of a sequence
Prefix(seq, n) == SubSeq(seq, 1, n)

\* both renderings of a list agree, keep its length, and render each element
\* as they render it alone
SameRendering(patterns) ==
  /\ generateIncludePatterns(patterns) = generateExcludePatterns(patterns)
  /\ Len(generateIncludePatterns(patterns)) = Len(patterns)
  /\ \A k \in DOMAIN patterns :
       /\ generateIncludePatterns(patterns)[k] = generateIncludePatterns(<<patterns[k]>>)[1]
       /\ generateExcludePatterns(patterns)[k] = generateExcludePatterns(<<patterns[k]>>)[1]

\* C25: when a search request renders the include and the exclude patterns of
\* its owner, generateIncludePatterns and generateExcludePatterns are the same
\* mapping on both lists: the same result, of the length and in the order of
\* the input, each element rendered independently of the others; the request
\* holds these renderings.
C25_SameRendering ==
  [][ (search.pc = "view" /\ search'.pc \in {"find", "done"} /\ search'.message # "error")
      => LET ownership == getFilePatternsForOwner(codeOwnerRules, search.owner)
         IN  /\ SameRendering(ownership.includePatterns)
             /\ SameRendering(ownership.excludePatterns)
             /\ search'.includePatterns = generateExcludePatterns(ownership.includePatterns)
             /\ Prefix(search'.excludePatterns, Len(ownership.excludePatterns))
                  = generateIncludePatterns(ownership.excludePatterns) ]_vars

\* a search for @frontend on "*.js @frontend", "/api/*.js @backend" rendered
\* the include pattern "*.js" and the exclude pattern "/api/*.js"
C25_Witness ==
  /\ codeOwnerRules = ScenarioRules
  /\ search.owner = Frontend
  /\ search.invoked
  /\ search.includePatterns = << <<"*", "*", "/">> \o StarJs >>
  /\ search.excludePatterns = << SliceFrom(ApiStarJs, 1) >>

\* C26: in every state, between the awaits of running reloads and after a
\* reload whose file could not be read included, the owner set is the union
\* of the owner lists of the installed rules, and every owner of an installed
\* rule contains "@".
C26_RulesAndOwnersConsistent ==
  /\ allOwners = OwnersOfRules
  /\ \A i \in DOMAIN codeOwnerRules :
       \A o \in Range(codeOwnerRules[i].owners) : Includes(o, <<"@">>)

\* a first reload installed rules with owners; the second has found the file
\* and waits for its text, the file was deleted in between, so that its read
\* will fail; the owner list was asked for in this state
C26_Witness ==
  /\ pc[1] = "done" /\ ret[1] = TRUE
  /\ pc[2] = "open"
  /\ disk[Candidate(probe[2])] = NoFile
  /\ codeOwnerRules # <<>>
  /\ allOwners # {}
  /\ observed.op = "owners"
  /\ observed.answer.owners = getAllOwners(allOwners)

\* reload r, the last one started, has completed with a rule file while the
\* earlier reload q is still between its awaits
Overtaken(q, r) ==
  /\ q < r
  /\ pc[q] \in {"stat", "open"}
  /\ pc[r] = "done" /\ ret[r] = TRUE
  /\ \A x \in Reloads : x > r => pc[x] = "idle"

\* a rule list is the parse of the file recorded as the rule-file path
BelongsToRecordedFile(path, files, rules) ==
  /\ path # Null
  /\ files[path] # NoFile
  /\ rules = FirstParse(files[path]).codeOwnerRules

\* C27: when two reloads overlap and the one started last has completed, the
\* step with which the earlier reload completes, so that both have completed,
\* leaves the rule-file path, the rule list and the owner set as the later
\* reload installed them; read in favour of the code, it may install a fresher
\* text, but then of the file recorded as the rule-file path.
C27_LastStartedReloadWins ==
  [][ \A q, r \in Reloads :
        ( /\ Overtaken(q, r)
          /\ pc'[q] = "done"
          /\ \A x \in Reloads : x < r => pc'[x] = "done" )
        => \/ snapshot' = snapshot
           \/ BelongsToRecordedFile(codeOwnersFilePath', disk', codeOwnerRules') ]_vars

----------------------------------------------------------------------------
(* The script of the webview: its variables, the Apply button and the      *)
(* messages it posts, under the events of the user and the messages of the *)
(* host.                                                                   *)

UpperCase ==
  <<"A", "B", "C", "D", "E", "F", "G", "H", "I", "J", "K", "L", "M",
    "N", "O", "P", "Q", "R", "S", "T", "U", "V", "W", "X", "Y", "Z">>
LowerCase ==
  <<"a", "b", "c", "d", "e", "f", "g", "h", "i", "j", "k", "l", "m",
    "n", "o", "p", "q", "r", "s", "t", "u", "v", "w", "x", "y", "z">>

\* String.prototype.toLowerCase
toLowerCase(text) ==
  [k \in DOMAIN text |->
     IF \E n \in DOMAIN UpperCase : UpperCase[n] = text[k]
     THEN LowerCase[CHOOSE n \in DOMAIN UpperCase : UpperCase[n] = text[k]]
     ELSE text[k]]

\* allOwners.filter(owner => owner.toLowerCase().includes(query))
RECURSIVE filterOwners(_, _)
filterOwners(owners, query) ==
  IF owners = <<>> THEN <<>>
  ELSE (IF Includes(toLowerCase(Head(owners)), query) THEN <<Head(owners)>> ELSE <<>>)
       \o filterOwners(Tail(owners), query)

updateButtonState(w) ==
  LET hasSelection == w.selectedOwner # <<>> /\ Trim(w.selectedOwner) # <<>>
  IN  [w EXCEPT !.disabled = ~(hasSelection /\ w.hasCodeOwnersFile)]

showDropdown(w) == [w EXCEPT !.isDropdownOpen = TRUE]
hideDropdown(w) == [w EXCEPT !.isDropdownOpen = FALSE]

selectOwner(w, owner) ==
  updateButtonState(hideDropdown([w EXCEPT !.selectedOwner = owner]))

searchByCodeOwner(w) ==
  IF Trim(w.selectedOwner) = <<>> THEN w
  ELSE IF ~w.hasCodeOwnersFile THEN w
  ELSE [w EXCEPT !.posted = [type |-> "searchByCodeOwner",
                             owner |-> Trim(w.selectedOwner),
                             hideGitIgnoreFiles |-> w.hideGitIgnoreFiles]]

onInputChange(w, value) ==
  LET query == toLowerCase(value)
      filtered == IF query = <<>> THEN w.allOwners ELSE filterOwners(w.allOwners, query)
  IN  updateButtonState(showDropdown([w EXCEPT !.selectedOwner = value,
                                               !.filteredOwners = filtered]))

onBadgeClick(w, owner) ==
  LET chosen == [w EXCEPT !.selectedOwner = owner]
      closed == IF chosen.isDropdownOpen THEN hideDropdown(chosen) ELSE chosen
  IN  searchByCodeOwner(updateButtonState(closed))

\* updateCodeOwners that leaves the button as it is
updateCodeOwnersStaleButton(w, data) ==
  LET owners == IF data.hasCodeOwnersFile
                THEN <<UnownedName, OwnedByAllName>> \o data.owners
                ELSE data.owners
  IN  [w EXCEPT !.hasCodeOwnersFile = data.hasCodeOwnersFile,
                !.allOwners = owners,
                !.filteredOwners = owners]

updateCodeOwners(w, data) ==
  LET owners == IF data.hasCodeOwnersFile
                THEN <<UnownedName, OwnedByAllName>> \o data.owners
                ELSE data.owners
  IN  updateButtonState([w EXCEPT !.hasCodeOwnersFile = data.hasCodeOwnersFile,
                                  !.allOwners = owners,
                                  !.filteredOwners = owners])

updateActiveFileInfo(w, data) ==
  IF data.codeOwner /\ ~data.isUnowned /\ Len(data.owners) > 0
  THEN [w EXCEPT !.badgesHidden = FALSE, !.badges = data.owners]
  ELSE [w EXCEPT !.badgesHidden = TRUE]

\* what the user types into the owner field
InputValues == { <<>>, <<" ">>, Frontend, <<"@", "B">>, Frontend \o <<" ">> }

\* the "codeOwners" messages of the host
CodeOwnersMessages ==
  { [hasCodeOwnersFile |-> FALSE, owners |-> <<>>],
    [hasCodeOwnersFile |-> TRUE, owners |-> <<>>],
    [hasCodeOwnersFile |-> TRUE, owners |-> <<Backend, Frontend>>] }

\* the "activeFileInfo" messages of the host: no owner information, an
\* unowned file, a file with one owner
ActiveFileMessages ==
  { [codeOwner |-> FALSE, isUnowned |-> TRUE, owners |-> <<>>],
    [codeOwner |-> TRUE, isUnowned |-> TRUE, owners |-> <<>>],
    [codeOwner |-> TRUE, isUnowned |-> FALSE, owners |-> <<Backend>>] }

unchangedHost == <<workspaceFolders, disk, service, calls, observed, search>>

\* initialize(): the listeners are set up, the two requests are posted and
\* the button is set
InitializeView ==
  /\ ~webview.initialized
  /\ webview' = updateButtonState([webview EXCEPT !.initialized = TRUE,
                                                  !.posted = [type |-> "getCodeOwners"]])
  /\ UNCHANGED unchangedHost

OnInputChange(value) ==
  /\ webview.initialized
  /\ webview' = onInputChange(webview, value)
  /\ UNCHANGED unchangedHost

\* the field takes the focus, or the toggle opens the dropdown
OnInputFocus ==
  /\ webview.initialized
  /\ webview' = showDropdown([webview EXCEPT !.filteredOwners = webview.allOwners])
  /\ UNCHANGED unchangedHost

\* the toggle, the blur timer, Escape or a click outside closes the dropdown
HideDropdown ==
  /\ webview.initialized
  /\ webview.isDropdownOpen
  /\ webview' = hideDropdown(webview)
  /\ UNCHANGED unchangedHost

\* a click on an item of the open dropdown
OnItemClick(owner) ==
  /\ webview.initialized
  /\ webview.isDropdownOpen
  /\ owner \in Range(webview.filteredOwners)
  /\ webview' = selectOwner(webview, owner)
  /\ UNCHANGED unchangedHost

\* Enter in the field: with the dropdown closed and an owner selected the
\* search is requested, otherwise the highlighted or the first item is taken
OnInputKeydownEnter(item) ==
  /\ webview.initialized
  /\ IF ~webview.isDropdownOpen /\ Trim(webview.selectedOwner) # <<>>
     THEN webview' = searchByCodeOwner(webview)
     ELSE /\ item \in Range(webview.filteredOwners)
          /\ webview' = selectOwner(webview, item)
  /\ UNCHANGED unchangedHost

OnHideGitIgnoreToggle(checked) ==
  /\ webview.initialized
  /\ webview' = [webview EXCEPT !.hideGitIgnoreFiles = checked]
  /\ UNCHANGED unchangedHost

\* a click on a badge of the active file
OnBadgeClick(owner) ==
  /\ ~webview.badgesHidden
  /\ owner \in Range(webview.badges)
  /\ webview' = onBadgeClick(webview, owner)
  /\ UNCHANGED unchangedHost

\* a click on the Apply button, which a disabled button does not deliver
OnApplyClick ==
  /\ webview.initialized
  /\ ~webview.disabled
  /\ webview' = searchByCodeOwner(webview)
  /\ UNCHANGED unchangedHost

\* a click on the reload button
OnReloadClick ==
  /\ webview.initialized
  /\ webview' = [webview EXCEPT !.posted = [type |-> "reloadCodeOwners"]]
  /\ UNCHANGED unchangedHost

\* the host posts "codeOwners"
OnCodeOwnersMessage(data) ==
  /\ webview' = [updateCodeOwners(webview, data) EXCEPT !.reported = data.hasCodeOwnersFile]
  /\ UNCHANGED unchangedHost

\* the host posts "activeFileInfo"
OnActiveFileInfoMessage(data) ==
  /\ webview' = updateActiveFileInfo(webview, data)
  /\ UNCHANGED unchangedHost

InitView ==
  /\ workspaceFolders = 0
  /\ disk = [c \in Candidates |-> NoFile]
  /\ Constructed

NextView ==
  \/ InitializeView
  \/ \E value \in InputValues : OnInputChange(value)
  \/ OnInputFocus
  \/ HideDropdown
  \/ \E owner \in QueryOwners : OnItemClick(owner)
  \/ \E item \in QueryOwners : OnInputKeydownEnter(item)
  \/ \E checked \in BOOLEAN : OnHideGitIgnoreToggle(checked)
  \/ \E owner \in QueryOwners : OnBadgeClick(owner)
  \/ OnApplyClick
  \/ OnReloadClick
  \/ \E data \in CodeOwnersMessages : OnCodeOwnersMessage(data)
  \/ \E data \in ActiveFileMessages : OnActiveFileInfoMessage(data)

SpecView == InitView /\ [][NextView]_vars

\* the owner field is not blank and the last "codeOwners" message reported a
\* rule file
MaySearch(w) == Trim(w.selectedOwner) # <<>> /\ w.reported

\* C28: after every event of the user and every message of the host that
\* follows initialization the Apply button is enabled exactly when the
\* selected owner is not blank and the last "codeOwners" message reported a
\* rule file, and a "searchByCodeOwner" message is posted only in such a
\* state, with the button enabled.
C28_ApplyButtonGuard ==
  [][ /\ webview'.initialized => (~webview'.disabled <=> MaySearch(webview'))
      /\ (webview'.posted # webview.posted /\ webview'.posted.type = "searchByCodeOwner")
           => (MaySearch(webview') /\ ~webview'.disabled) ]_vars

\* the host reported a rule file, the user chose @frontend and a search for
\* it was posted; the button is enabled
C28_Witness ==
  /\ webview.initialized
  /\ webview.reported
  /\ webview.selectedOwner = Frontend \o <<" ">>
  /\ ~webview.disabled
  /\ webview.posted.type = "searchByCodeOwner"
  /\ webview.posted.owner = Frontend

====
